---- MODULE Spec2Model ----
(***************************************************************************)
(* The expense tracker command line tool (src/src/main.rs).                *)
(*                                                                         *)
(* One invocation of the binary parses its arguments, loads the whole     *)
(* ledger from expenses.json, runs one subcommand and, for add and delete, *)
(* rewrites the whole file.  The model keeps the file (store) and, for     *)
(* each of two operating-system processes, the position in main, the       *)
(* parsed command, the in-memory tracker, what was printed and the exit    *)
(* status.                                                                 *)
(*                                                                         *)
(* Option<T> is a sequence of length at most one: <<>> is None, <<x>> is   *)
(* Some(x).  A date string "YYYY-MM-DD" is the triple <<y, m, d>> of its    *)
(* fields; a NaiveDate is the record [y, m, d] of a date that exists.      *)
(* An f64 is [k, v]: k = "fin" with the integer value v, or k = "nan".     *)
(***************************************************************************)
EXTENDS Integers, Sequences, FiniteSets, TLC

VARIABLES
    store,       \* the file expenses.json
    pc,          \* per process: "idle", "loaded", "saving", "writing", "exited"
    cmd,         \* per process: the parsed command line
    tracker,     \* per process: ExpenseTracker.expenses
    out,         \* per process: the lines printed so far
    exitCode,    \* per process: the exit status, once exited
    lastWriter,  \* history: the process that wrote the file last (0: none)
    stale,       \* history, per process: another process has opened the file
                 \* for saving since this one loaded it
    raced        \* history, per process: its save began or ran while another
                 \* process was between its open and its write

vars == <<store, pc, cmd, tracker, out, exitCode, lastWriter, stale, raced>>
history == <<lastWriter, stale, raced>>

\* Longest ledger: add is invoked only on a shorter one.
MaxLen == 3
\* Significand width of the modelled f64 (53 in the build; the rounding rule
\* is the same at every width).
MantBits == 3
\* Longest ledger of the read-only specification SpecQuery.
MaxQueryLen == 3
\* Longest ledger two concurrent invocations start from in SpecConc.
MaxConcLen == 1

Procs == {1, 2}

-----------------------------------------------------------------------------
(* f64 *)

RECURSIVE Pow2(_)
Pow2(n) == IF n = 0 THEN 1 ELSE 2 * Pow2(n - 1)

Fin(v) == [k |-> "fin", v |-> v]
NaN == [k |-> "nan", v |-> 0]

Abs(x) == IF x < 0 THEN 0 - x ELSE x

\* The spacing of the representable numbers around magnitude a: the least
\* power of two u with a < u * 2^MantBits.
RECURSIVE Ulp(_, _)
Ulp(a, u) == IF a < u * Pow2(MantBits) THEN u ELSE Ulp(a, 2 * u)

\* Round to nearest, ties to even significand.
RoundF64(x) ==
    LET a == Abs(x)
        u == Ulp(a, 1)
        q == a \div u
        r == a % u
        up == (2 * r > u) \/ (2 * r = u /\ q % 2 = 1)
        m == (IF up THEN q + 1 ELSE q) * u
    IN IF x < 0 THEN 0 - m ELSE m

\* a + b of two f64.
FAdd(a, b) ==
    IF a.k = "nan" \/ b.k = "nan" THEN NaN ELSE Fin(RoundF64(a.v + b.v))

\* a == b of two f64: a NaN equals nothing.
FEq(a, b) == a.k = "fin" /\ b.k = "fin" /\ a.v = b.v

-----------------------------------------------------------------------------
(* Dates *)

IsLeap(y) == (y % 4 = 0 /\ y % 100 # 0) \/ y % 400 = 0

DaysIn(y, m) ==
    IF m = 2 THEN (IF IsLeap(y) THEN 29 ELSE 28)
    ELSE IF m \in {4, 6, 9, 11} THEN 30 ELSE 31

\* NaiveDate::parse_from_str(s, "%Y-%m-%d"): Some(date) or None.
ParseDate(s) ==
    IF s[2] \in 1..12 /\ s[3] \in 1..DaysIn(s[1], s[2])
    THEN <<[y |-> s[1], m |-> s[2], d |-> s[3]]>>
    ELSE <<>>

\* NaiveDate's Display and Serialize: the string "YYYY-MM-DD".
DateToString(date) == <<date.y, date.m, date.d>>

-----------------------------------------------------------------------------
(* The values the invocations draw their arguments from *)

Dates == {[y |-> 2025, m |-> 1, d |-> 10], [y |-> 2024, m |-> 3, d |-> 20]}
BadDateString == <<2025, 13, 1>>
DateStrings == {DateToString(date) : date \in Dates} \cup {BadDateString}
Categories == {"food", "travel"}
Descriptions == {"lunch"}
\* The amounts add is invoked with: a number, and the NaN that the f64
\* parser of the command line accepts.
Amounts == {Fin(1), NaN}
\* The amounts of the ledgers the read-only specification starts from: the
\* least number whose successor is not an f64, and 1.
QueryAmounts == {Fin(1), Fin(Pow2(MantBits))}

Expense(date, category, amount, description) ==
    [date |-> date, category |-> category, amount |-> amount,
     description |-> description]

ExpensesOf(amounts) ==
    {Expense(date, c, a, d) :
        date \in Dates, c \in Categories, a \in amounts, d \in Descriptions}

Expenses == ExpensesOf(Amounts)

RECURSIVE SeqsUpTo(_, _)
SeqsUpTo(S, n) ==
    IF n = 0 THEN {<<>>}
    ELSE LET shorter == SeqsUpTo(S, n - 1)
         IN shorter \cup {Append(s, x) : s \in {t \in shorter : Len(t) = n - 1}, x \in S}

-----------------------------------------------------------------------------
(* serde_json: the text of expenses.json *)

\* Serialize for f64: a finite number is written as a JSON number, a NaN or
\* an infinity as the literal null.
SerializeF64(a) ==
    IF a.k = "fin" THEN [t |-> "num", n |-> a.v] ELSE [t |-> "null", n |-> 0]

\* Deserialize for f64: Some(number), or None for any other token.
DeserializeF64(j) == IF j.t = "num" THEN <<Fin(j.n)>> ELSE <<>>

\* #[derive(Serialize)] for Expense: one JSON object, the fields in order.
SerializeExpense(e) ==
    [date |-> DateToString(e.date), category |-> e.category,
     amount |-> SerializeF64(e.amount), description |-> e.description]

\* #[derive(Deserialize)] for Expense: Some(expense), or None when a field
\* does not parse.
DeserializeExpense(j) ==
    LET date == ParseDate(j.date)
        amount == DeserializeF64(j.amount)
    IN IF date = <<>> \/ amount = <<>> THEN <<>>
       ELSE <<Expense(date[1], j.category, amount[1], j.description)>>

\* #[derive(Serialize)] for ExpenseTracker: {"expenses":[...]}, in order.
Serialize(expenses) ==
    [i \in 1..Len(expenses) |-> SerializeExpense(expenses[i])]

\* #[derive(Deserialize)] for ExpenseTracker.
Deserialize(doc) ==
    IF \E i \in 1..Len(doc) : DeserializeExpense(doc[i]) = <<>> THEN <<>>
    ELSE <<[i \in 1..Len(doc) |-> DeserializeExpense(doc[i])[1]]>>

\* Number of decimal digits of n >= 0.
RECURSIVE DecDigits(_)
DecDigits(n) == IF n < 10 THEN 1 ELSE 1 + DecDigits(n \div 10)

StrLen(s) ==
    CASE s = "food" -> 4
      [] s = "travel" -> 6
      [] s = "lunch" -> 5
      [] OTHER -> 0

\* Bytes of an amount: "8.0" for a number, "null" otherwise.
AmountBytes(j) ==
    IF j.t = "null" THEN 4
    ELSE (IF j.n < 0 THEN 1 ELSE 0) + DecDigits(Abs(j.n)) + 2

\* Bytes of {"date":"2025-01-10","category":"..","amount":..,"description":".."}.
ExpenseBytes(j) ==
    62 + StrLen(j.category) + AmountBytes(j.amount) + StrLen(j.description)

RECURSIVE SumBytes(_, _)
SumBytes(doc, i) ==
    IF i > Len(doc) THEN 0 ELSE ExpenseBytes(doc[i]) + SumBytes(doc, i + 1)

\* Bytes of the whole text: {"expenses":[ o1,o2,... ]}.
DocBytes(doc) ==
    15 + SumBytes(doc, 1) + (IF Len(doc) > 1 THEN Len(doc) - 1 ELSE 0)

-----------------------------------------------------------------------------
(* The file expenses.json *)

\* No file at the path.
Absent == [exists |-> FALSE, wf |-> FALSE, doc |-> <<>>, size |-> 0]

\* A file holding exactly the text of doc.
FileOf(doc) == [exists |-> TRUE, wf |-> TRUE, doc |-> doc, size |-> DocBytes(doc)]

\* A file of n bytes that is not one JSON value: the empty file, a text cut
\* short, a text followed by the tail of a longer one.
Malformed(n) == [exists |-> TRUE, wf |-> FALSE, doc |-> <<>>, size |-> n]

\* The open without .truncate(true): what the file holds stays.
OpenedWithoutTruncate == IF store.exists THEN store ELSE Malformed(0)

\* OpenOptions .create(true).write(true).truncate(true): the file exists and
\* is empty; the handle's offset is 0.
Truncated == Malformed(0)

\* Writing the whole text of doc through a handle at offset 0: the bytes
\* replace the start of the file, and what the file holds beyond them stays.
WriteFromStart(file, doc) ==
    IF file.size <= DocBytes(doc) THEN FileOf(doc) ELSE Malformed(file.size)

\* A write that fails after n bytes of the text.
WritePrefix(file, n) == Malformed(IF file.size > n THEN file.size ELSE n)

-----------------------------------------------------------------------------
(* What a process prints: one record per line of output *)

\* A line: its text, the total it reports (if any) and the summary query that
\* computed it, or the row it shows.
Line(text) ==
    [text |-> text, query |-> "", value |-> <<>>, row |-> 0, expense |-> <<>>]
Total(text, query, value) ==
    [text |-> text, query |-> query, value |-> <<value>>, row |-> 0,
     expense |-> <<>>]
Row(i, e) ==
    [text |-> "{}. Date: {}, Category: {}, Amount: {}, Description: {}",
     query |-> "", value |-> <<>>, row |-> i, expense |-> <<e>>]

\* The message of a panic, printed by the runtime before it exits with 101.
Panic(message) == Line(message)

PanicTexts ==
    {"attempt to subtract with overflow",
     "removal index should be < len",
     "File should exist",
     "Should be correctly formatted: %Y-%m-%d (for example, 2025-12-31)"}

Texts(lines) == {lines[i].text : i \in 1..Len(lines)}

-----------------------------------------------------------------------------
(* impl ExpenseTracker *)

new == <<>>

add_expense(expenses, expense) == Append(expenses, expense)

\* Vec::remove(index), index counted from 0: Some(the shorter vector), or
\* None when the index is not below the length (the call panics).
VecRemove(v, index) ==
    IF index < Len(v)
    THEN <<SubSeq(v, 1, index) \o SubSeq(v, index + 2, Len(v))>>
    ELSE <<>>

\* The greatest usize (2^64 - 1 in the build; here the greatest integer of
\* the model checker, which no vector's length reaches either).
UsizeMax == Pow2(30) + (Pow2(30) - 1)

\* The row number taken as the index, without the - 1.
RowIndexUnshifted(row_number, build) == <<row_number>>

\* row_number - 1 in usize: Some(index); at 0 a build with overflow checks
\* panics (None), a build without them wraps around.
RowIndex(row_number, build) ==
    IF row_number > 0 THEN <<row_number - 1>>
    ELSE IF build = "debug" THEN <<>> ELSE <<UsizeMax>>

Builds == {"debug", "release"}

\* delete_expense: what it prints, and Some(the expenses left) or None when
\* it panics.
delete_expense(expenses, row_number, build) ==
    LET printed == IF expenses = <<>> THEN <<Line("No expenses found.")>> ELSE <<>>
        index == RowIndex(row_number, build)
    IN IF index = <<>>
       THEN [out |-> printed \o <<Panic("attempt to subtract with overflow")>>,
             expenses |-> <<>>]
       ELSE IF VecRemove(expenses, index[1]) = <<>>
       THEN [out |-> printed \o <<Panic("removal index should be < len")>>,
             expenses |-> <<>>]
       ELSE [out |-> printed, expenses |-> VecRemove(expenses, index[1])]

\* The amounts of the first n expenses added in order, starting from 0.
RECURSIVE SumAmounts(_, _)
SumAmounts(expenses, n) ==
    IF n = 0 THEN Fin(0)
    ELSE FAdd(SumAmounts(expenses, n - 1), expenses[n].amount)

summary_all(expenses) == SumAmounts(expenses, Len(expenses))

\* A loop that assigns instead of adding: the amount of the last expense of
\* the category.
summary_by_category_assigning(expenses, filter_by) ==
    LET keep(e) == e.category = filter_by
        kept == SelectSeq(expenses, keep)
    IN IF kept = <<>> THEN Fin(0) ELSE FAdd(Fin(0), kept[Len(kept)].amount)

\* The loops of the three filtered summaries add the amounts of the expenses
\* that pass the test, in order, starting from 0.
summary_by_category(expenses, filter_by) ==
    LET keep(e) == e.category = filter_by
        kept == SelectSeq(expenses, keep)
    IN SumAmounts(kept, Len(kept))

summary_by_date(expenses, date) ==
    LET keep(e) == e.date = date
        kept == SelectSeq(expenses, keep)
    IN SumAmounts(kept, Len(kept))

summary_by_month(expenses, month) ==
    LET keep(e) == e.date.m = month
        kept == SelectSeq(expenses, keep)
    IN SumAmounts(kept, Len(kept))

\* save_to_json has two steps, the open and the write; the actions SaveOpen
\* and SaveWrite below take them.  This is what the write leaves in the file.
save_to_json(file, expenses) == WriteFromStart(file, Serialize(expenses))

\* A load that falls back to an empty tracker when the text does not parse.
load_or_new(file) ==
    IF file.exists /\ file.wf /\ Deserialize(file.doc) # <<>>
    THEN Deserialize(file.doc)
    ELSE <<new>>

\* load_from_json: Ok(tracker) as Some, Err as None.
load_from_json(file) ==
    IF ~file.exists THEN <<new>>
    ELSE IF ~file.wf THEN <<>>
    ELSE Deserialize(file.doc)

print_all_expenses(expenses) ==
    [i \in 1..Len(expenses) |-> Row(i, expenses[i])]

-----------------------------------------------------------------------------
(* The parsed command line: clap's matches *)

Matches(op, category, amount, description, when, row_number, all, date, month) ==
    [op |-> op, category |-> category, amount |-> amount,
     description |-> description, when |-> when, row_number |-> row_number,
     all |-> all, date |-> date, month |-> month]

NoMatches == Matches("", <<>>, Fin(0), "", <<>>, 0, FALSE, <<>>, <<>>)

Some(S) == {<<x>> : x \in S}
Option(S) == {<<>>} \cup Some(S)

\* add -c <category> -a <amount> -d <description> [-w <when>]
AddCommands ==
    {Matches("add", <<c>>, a, d, w, 0, FALSE, <<>>, <<>>) :
        c \in Categories, a \in Amounts, d \in Descriptions,
        w \in Option(DateStrings)}

\* delete <row_number>
DeleteCommands ==
    {Matches("delete", <<>>, Fin(0), "", <<>>, n, FALSE, <<>>, <<>>) :
        n \in 0..(MaxLen + 1)}

SummaryCategories == {"food"}
SummaryDates == {<<2025, 1, 10>>, BadDateString}
SummaryMonths == {3}

\* summary [-a] [-c <category>] [-d <date>] [-m <month>], at least one of
\* them (arg_required_else_help prints the help otherwise, and exits).
SummaryCommands ==
    {Matches("summary", c, Fin(0), "", <<>>, 0, a, d, m) :
        a \in BOOLEAN, c \in Option(SummaryCategories),
        d \in Option(SummaryDates), m \in Option(SummaryMonths)}
    \ {Matches("summary", <<>>, Fin(0), "", <<>>, 0, FALSE, <<>>, <<>>)}

ListCommands == {Matches("list", <<>>, Fin(0), "", <<>>, 0, FALSE, <<>>, <<>>)}

Commands == AddCommands \cup DeleteCommands \cup SummaryCommands \cup ListCommands

-----------------------------------------------------------------------------
(* fn main: what each branch computes *)

DatePanic ==
    Panic("Should be correctly formatted: %Y-%m-%d (for example, 2025-12-31)")

\* The add branch up to add_expense: what it prints, and Some(the expenses)
\* or None when the date does not parse (expect panics).
main_add(c, expenses, today) ==
    LET date_string == IF c.when = <<>> THEN DateToString(today) ELSE c.when[1]
        date == ParseDate(date_string)
    IN IF date = <<>> THEN [out |-> <<DatePanic>>, expenses |-> <<>>]
       ELSE [out |-> <<>>,
             expenses |-> <<add_expense(expenses,
                 Expense(date[1], c.category[1], c.amount, c.description))>>]

\* The delete branch up to delete_expense.
main_delete(c, expenses, build) ==
    LET warned == IF c.row_number > Len(expenses)
                  THEN <<Line("Row number should be less than {length}")>>
                  ELSE <<>>
        deleted == delete_expense(expenses, c.row_number, build)
    IN [out |-> warned \o deleted.out, expenses |-> deleted.expenses]

\* The summary branch: the lines it prints, and whether it panics after them.
main_summary(c, expenses) ==
    LET first == IF c.all
                 THEN <<Total("Total expenses", "all", summary_all(expenses))>>
                 ELSE <<>>
    IN IF c.category # <<>>
       THEN [out |-> first \o <<Total("Total expenses", "category",
                         summary_by_category(expenses, c.category[1]))>>,
             panic |-> FALSE]
       ELSE IF c.date # <<>>
       THEN (IF ParseDate(c.date[1]) = <<>>
             THEN [out |-> first \o <<DatePanic>>, panic |-> TRUE]
             ELSE [out |-> first \o <<Total("Expenses by date", "date",
                         summary_by_date(expenses, ParseDate(c.date[1])[1]))>>,
                   panic |-> FALSE])
       ELSE IF c.month # <<>>
       THEN [out |-> first \o <<Total("Expenses by month", "month",
                         summary_by_month(expenses, c.month[1]))>>,
             panic |-> FALSE]
       ELSE [out |-> first \o
                 <<Line("Please provide a valid option for summary")>>,
             panic |-> FALSE]

\* The list branch.
main_list(expenses) ==
    IF expenses = <<>> THEN <<Line("No expenses found.")>>
    ELSE print_all_expenses(expenses)

\* Every branch goes on to save_to_json.
SavesInEveryBranch(op) == TRUE

\* The branches that go on to save_to_json.
Saves(op) == op \in {"add", "delete"}

\* The result of save_to_json dropped: the branch goes on as after a save.
after_save_unchecked(c, expenses, saved) ==
    IF c.op = "add"
    THEN [out |-> <<Line("Expense added successfully!")>>
                  \o print_all_expenses(expenses),
          code |-> 0]
    ELSE [out |-> <<>>, code |-> 0]

\* What follows save_to_json's return in the add and delete branches: the
\* lines printed and the exit status.
after_save(c, expenses, saved) ==
    IF ~saved
    THEN [out |-> <<Line(IF c.op = "add" THEN "Error saving data"
                         ELSE "Error deleting")>>,
          code |-> 1]
    ELSE IF c.op = "add"
    THEN [out |-> <<Line("Expense added successfully!")>>
                  \o print_all_expenses(expenses),
          code |-> 0]
    ELSE [out |-> <<>>, code |-> 0]

-----------------------------------------------------------------------------
(* The steps of a process *)

Exit(p, lines, code) ==
    /\ pc' = [pc EXCEPT ![p] = "exited"]
    /\ out' = [out EXCEPT ![p] = lines]
    /\ exitCode' = [exitCode EXCEPT ![p] = code]

Goto(p, label, lines) ==
    /\ pc' = [pc EXCEPT ![p] = label]
    /\ out' = [out EXCEPT ![p] = lines]
    /\ UNCHANGED exitCode

\* A new invocation with the command line c: get_matches, then
\* load_from_json; a load error ends the process with status 1.  The open of
\* a file that exists may fail too (it cannot be read): expect panics.
Invoke(p, c) ==
    /\ pc[p] \in {"idle", "exited"}
    /\ c.op = "add" => Len(store.doc) < MaxLen
    /\ cmd' = [cmd EXCEPT ![p] = c]
    /\ \/ IF load_from_json(store) = <<>>
          THEN /\ Exit(p, <<Line("Error loading data")>>, 1)
               /\ tracker' = [tracker EXCEPT ![p] = new]
          ELSE /\ pc' = [pc EXCEPT ![p] = "loaded"]
               /\ out' = [out EXCEPT ![p] = <<>>]
               /\ exitCode' = [exitCode EXCEPT ![p] = 0]
               /\ tracker' = [tracker EXCEPT ![p] = load_from_json(store)[1]]
       \/ /\ store.exists
          /\ Exit(p, <<Panic("File should exist")>>, 101)
          /\ tracker' = [tracker EXCEPT ![p] = new]
    /\ stale' = [stale EXCEPT ![p] = FALSE]
    /\ raced' = [raced EXCEPT ![p] = FALSE]
    /\ UNCHANGED <<store, lastWriter>>

\* Some(("add", sub_matches)) up to the call of save_to_json.
Add(p) ==
    /\ pc[p] = "loaded" /\ cmd[p].op = "add"
    /\ \E today \in Dates :
         LET r == main_add(cmd[p], tracker[p], today)
         IN IF r.expenses = <<>>
            THEN Exit(p, out[p] \o r.out, 101) /\ UNCHANGED tracker
            ELSE /\ tracker' = [tracker EXCEPT ![p] = r.expenses[1]]
                 /\ Goto(p, "saving", out[p] \o r.out)
    /\ UNCHANGED <<store, cmd, history>>

\* Some(("delete", sub_matches)) up to the call of save_to_json.
Delete(p) ==
    /\ pc[p] = "loaded" /\ cmd[p].op = "delete"
    /\ \E build \in Builds :
         LET r == main_delete(cmd[p], tracker[p], build)
         IN IF r.expenses = <<>>
            THEN Exit(p, out[p] \o r.out, 101) /\ UNCHANGED tracker
            ELSE /\ tracker' = [tracker EXCEPT ![p] = r.expenses[1]]
                 /\ Goto(p, "saving", out[p] \o r.out)
    /\ UNCHANGED <<store, cmd, history>>

\* Some(("summary", sub_matches)).
Summary(p) ==
    /\ pc[p] = "loaded" /\ cmd[p].op = "summary"
    /\ LET r == main_summary(cmd[p], tracker[p])
       IN IF r.panic THEN Exit(p, out[p] \o r.out, 101)
          ELSE IF Saves(cmd[p].op) THEN Goto(p, "saving", out[p] \o r.out)
          ELSE Exit(p, out[p] \o r.out, 0)
    /\ UNCHANGED <<store, cmd, tracker, history>>

\* Some(("list", _)).
List(p) ==
    /\ pc[p] = "loaded" /\ cmd[p].op = "list"
    /\ IF Saves(cmd[p].op) THEN Goto(p, "saving", out[p] \o main_list(tracker[p]))
       ELSE Exit(p, out[p] \o main_list(tracker[p]), 0)
    /\ UNCHANGED <<store, cmd, tracker, history>>

InFlight(q) == pc[q] \in {"loaded", "saving", "writing"}

\* save_to_json, the open: the file is created or emptied; or the open fails
\* and leaves it as it is.
SaveOpen(p) ==
    /\ pc[p] = "saving"
    /\ \/ /\ store' = Truncated
          /\ Goto(p, "writing", out[p])
          /\ stale' = [q \in Procs |-> stale[q] \/ (q # p /\ InFlight(q))]
          /\ raced' = [q \in Procs |->
                 raced[q] \/ (\E w \in Procs \ {p} : pc[w] = "writing"
                                 /\ q \in {p, w})]
       \/ /\ UNCHANGED <<store, stale, raced>>
          /\ LET r == after_save(cmd[p], tracker[p], FALSE)
             IN Exit(p, out[p] \o r.out, r.code)
    /\ UNCHANGED <<cmd, tracker, lastWriter>>

\* save_to_json, the write of the whole text; or the write fails, having
\* written nothing or all but the last byte.
SaveWrite(p) ==
    /\ pc[p] = "writing"
    /\ \/ /\ store' = save_to_json(store, tracker[p])
          /\ LET r == after_save(cmd[p], tracker[p], TRUE)
             IN Exit(p, out[p] \o r.out, r.code)
       \/ /\ \E n \in {0, DocBytes(Serialize(tracker[p])) - 1} :
                store' = WritePrefix(store, n)
          /\ LET r == after_save(cmd[p], tracker[p], FALSE)
             IN Exit(p, out[p] \o r.out, r.code)
    /\ lastWriter' = p
    /\ UNCHANGED <<cmd, tracker, stale, raced>>

-----------------------------------------------------------------------------
(* Specifications *)

Ledgers(n) == SeqsUpTo(Expenses, n)

InitProcs ==
    /\ pc = [p \in Procs |-> "idle"]
    /\ cmd = [p \in Procs |-> NoMatches]
    /\ tracker = [p \in Procs |-> new]
    /\ out = [p \in Procs |-> <<>>]
    /\ exitCode = [p \in Procs |-> 0]
    /\ lastWriter = 0
    /\ stale = [p \in Procs |-> FALSE]
    /\ raced = [p \in Procs |-> FALSE]

\* One user, one invocation after the other (process 1; process 2 never
\* runs).  The file is one an earlier run wrote, one that is cut short, or
\* is not there.
Init ==
    /\ store \in {Absent, Malformed(DocBytes(<<>>) - 1)}
                 \cup {FileOf(Serialize(l)) : l \in Ledgers(MaxLen)}
    /\ InitProcs

Next ==
    \/ \E c \in Commands : Invoke(1, c)
    \/ Add(1)
    \/ Delete(1)
    \/ Summary(1)
    \/ List(1)
    \/ SaveOpen(1)
    \/ SaveWrite(1)

Spec == Init /\ [][Next]_vars

\* Two invocations of add or delete at the same time, each process run once.
InitConc ==
    /\ store \in {Absent} \cup {FileOf(Serialize(l)) : l \in Ledgers(MaxConcLen)}
    /\ InitProcs

NextConc ==
    \E p \in Procs :
        \/ pc[p] = "idle" /\ \E c \in AddCommands \cup DeleteCommands : Invoke(p, c)
        \/ Add(p)
        \/ Delete(p)
        \/ SaveOpen(p)
        \/ SaveWrite(p)

SpecConc == InitConc /\ [][NextConc]_vars

\* The read-only subcommands on every ledger of up to MaxQueryLen expenses.
InitQuery ==
    /\ store \in {FileOf(Serialize(l)) :
                     l \in SeqsUpTo(ExpensesOf(QueryAmounts), MaxQueryLen)}
    /\ InitProcs

NextQuery ==
    \/ \E c \in SummaryCommands \cup ListCommands : Invoke(1, c)
    \/ Summary(1)
    \/ List(1)

SpecQuery == InitQuery /\ [][NextQuery]_vars

-----------------------------------------------------------------------------
(* Claims *)

HasText(lines, text) == text \in Texts(lines)
Panicked(lines) == Texts(lines) \cap PanicTexts # {}

\* The step of process 1 that runs the delete branch on its loaded ledger.
DeleteStep == pc[1] = "loaded" /\ cmd[1].op = "delete" /\ pc'[1] # "loaded"

\* C1: a delete whose row number is below 1 or above the length of a
\* non-empty ledger is refused with a reported range error before any removal
\* is attempted: the process does not run into the removal's panic, the
\* ledger and the file stay as they are, and the exit status is not 0.
C1_OutOfRangeDeleteRefused ==
    [][(/\ DeleteStep
        /\ tracker[1] # <<>>
        /\ (cmd[1].row_number < 1 \/ cmd[1].row_number > Len(tracker[1])))
       => /\ HasText(out'[1], "Row number should be less than {length}")
          /\ ~Panicked(out'[1])
          /\ tracker'[1] = tracker[1]
          /\ store' = store
          /\ pc'[1] = "exited"
          /\ exitCode'[1] # 0]_vars

\* C2: a delete on an empty ledger, whatever the row number, prints "No
\* expenses found.", attempts no removal and does not panic, and leaves the
\* ledger and the file as they are.
C2_DeleteOnEmptyLedgerReports ==
    [][(DeleteStep /\ tracker[1] = <<>>)
       => /\ HasText(out'[1], "No expenses found.")
          /\ ~Panicked(out'[1])
          /\ exitCode'[1] # 101
          /\ tracker'[1] = <<>>
          /\ store' = store]_vars

\* C3: delete(k) with 1 <= k <= n on a ledger of n >= 1 expenses removes
\* exactly the k-th: n - 1 are left, those before k stay where they were,
\* each one after k moves up by one place, and when the save succeeds the file
\* holds exactly this sequence and loads back as it.
C3_DeleteRemovesExactlyRowK ==
    [][/\ (/\ DeleteStep
           /\ cmd[1].row_number \in 1..Len(tracker[1]))
          => /\ pc'[1] = "saving"
             /\ Len(tracker'[1]) = Len(tracker[1]) - 1
             /\ \A j \in 1..(cmd[1].row_number - 1) :
                    tracker'[1][j] = tracker[1][j]
             /\ \A j \in cmd[1].row_number..Len(tracker'[1]) :
                    tracker'[1][j] = tracker[1][j + 1]
       /\ (/\ cmd[1].op = "delete"
           /\ pc[1] = "writing" /\ pc'[1] = "exited" /\ exitCode'[1] = 0)
          => /\ store' = FileOf(Serialize(tracker[1]))
             /\ load_from_json(store') = <<tracker[1]>>]_vars

\* Row 2 of a ledger of three has been deleted and saved.
C3_Witness ==
    /\ pc[1] = "exited" /\ cmd[1].op = "delete" /\ exitCode[1] = 0
    /\ cmd[1].row_number = 2
    /\ Len(tracker[1]) = 2
    /\ tracker[1][1] # tracker[1][2]
    /\ store = FileOf(Serialize(tracker[1]))

\* What list and summary print on a ledger.
ReadOnlyOutput(c, expenses) ==
    IF c.op = "summary" THEN main_summary(c, expenses).out
    ELSE main_list(expenses)

\* C4: no step of a list or summary invocation changes the file, and what the
\* invocation has printed when it ends is what the same command prints on the
\* file as it then stands: a repetition prints the same.
C4_ReadOnlyNeverWrites ==
    [][cmd'[1].op \in {"summary", "list"}
       => /\ store' = store
          /\ (pc[1] = "loaded" /\ pc'[1] = "exited")
             => /\ load_from_json(store') # <<>>
                /\ out'[1] = ReadOnlyOutput(cmd'[1], load_from_json(store')[1])]_vars

\* A summary with --all and --month has ended on a ledger that is not empty.
C4_Witness ==
    /\ pc[1] = "exited" /\ cmd[1].op = "summary" /\ exitCode[1] = 0
    /\ cmd[1].all /\ cmd[1].month # <<>>
    /\ tracker[1] # <<>>
    /\ store = FileOf(Serialize(tracker[1]))

\* The file is there and its text is one JSON object of the ledger's shape,
\* every amount a number and every date a date.
WellFormedLedger(file) ==
    /\ file.exists /\ file.wf
    /\ \A i \in 1..Len(file.doc) :
          /\ file.doc[i].amount.t = "num"
          /\ file.doc[i].date[2] \in 1..12
          /\ file.doc[i].date[3] \in 1..DaysIn(file.doc[i].date[1], file.doc[i].date[2])

\* C5: when the file exists and is not a well-formed ledger, an invocation of
\* any subcommand (a step of a process that is not running) ends at the load: the process exits with a status that is
\* not 0 having printed only the load error (or, when the file cannot even
\* be opened, the panic of the open), no branch of the subcommand runs, and
\* the file is not written.
C5_CorruptStoreAborts ==
    [][(/\ pc[1] \in {"idle", "exited"}
        /\ cmd'[1].op \in {"add", "delete", "summary", "list"}
        /\ store.exists /\ ~WellFormedLedger(store))
       => /\ pc'[1] = "exited"
          /\ exitCode'[1] # 0
          /\ Texts(out'[1]) \in {{"Error loading data"}, {"File should exist"}}
          /\ tracker'[1] = new
          /\ store' = store]_vars

\* An add has been refused on a file that is not a ledger.
C5_Witness ==
    /\ pc[1] = "exited" /\ cmd[1].op = "add" /\ exitCode[1] = 1
    /\ store.exists /\ ~WellFormedLedger(store)
    /\ HasText(out[1], "Error loading data")

\* C6: when an add or delete invocation ends and the file does not hold its
\* ledger (the save failed), the exit status is not 0 and the success message
\* of add has not been printed; the success message is printed only with the
\* ledger in the file.
C6_FailedSaveExitsNonZero ==
    [][\A p \in {1} :
          (pc[p] \in {"saving", "writing"} /\ pc'[p] = "exited")
          => /\ store' # FileOf(Serialize(tracker[p]))
                => /\ exitCode'[p] # 0
                   /\ ~HasText(out'[p], "Expense added successfully!")
             /\ HasText(out'[p], "Expense added successfully!")
                => /\ cmd[p].op = "add"
                   /\ exitCode'[p] = 0
                   /\ store' = FileOf(Serialize(tracker[p]))]_vars

\* The write of an add has failed and left a file that is not a ledger.
C6_Witness ==
    /\ pc[1] = "exited" /\ cmd[1].op = "add" /\ exitCode[1] = 1
    /\ HasText(out[1], "Error saving data")
    /\ ~store.wf

\* The summary queries a run has reported, in order.
QueriesRun(lines) ==
    LET ran(l) == l.query # ""
        kept == SelectSeq(lines, ran)
    IN [i \in 1..Len(kept) |-> kept[i].query]

\* category > date > month > all.
FirstMatch(c) ==
    IF c.category # <<>> THEN "category"
    ELSE IF c.date # <<>> THEN "date"
    ELSE IF c.month # <<>> THEN "month"
    ELSE "all"

\* C7: a summary invocation with at least one of --all, --category, --date,
\* --month that ends normally has run and reported exactly one summary
\* query, the first given in the order category, date, month, all.
C7_ExactlyOneSummaryQuery ==
    \A p \in Procs :
        (pc[p] = "exited" /\ cmd[p].op = "summary" /\ exitCode[p] = 0)
        => QueriesRun(out[p]) = <<FirstMatch(cmd[p])>>

\* Two ledgers are equal field for field and in the same order.
LedgerEq(a, b) ==
    /\ Len(a) = Len(b)
    /\ \A i \in 1..Len(a) :
          /\ a[i].date = b[i].date
          /\ a[i].category = b[i].category
          /\ FEq(a[i].amount, b[i].amount)
          /\ a[i].description = b[i].description

\* C8: after an add or delete invocation has saved its ledger successfully,
\* the file loads, and loads as that ledger, field for field and in order.
C8_RoundTrip ==
    \A p \in Procs :
        (pc[p] = "exited" /\ cmd[p].op \in {"add", "delete"} /\ exitCode[p] = 0)
        => /\ load_from_json(store) # <<>>
           /\ LedgerEq(load_from_json(store)[1], tracker[p])

\* Both processes have ended with status 0.
BothSucceeded == \A p \in Procs : pc[p] = "exited" /\ exitCode[p] = 0

\* C9 as stated: two add or delete invocations at the same time, the one that
\* writes last having loaded before the other saved, both ending with
\* success: the file holds exactly the ledger of the one that wrote last.
C9_LastWriterWins ==
    \A p \in Procs :
        (BothSucceeded /\ lastWriter = p /\ stale[p])
        => store = FileOf(Serialize(tracker[p]))

\* C9 as amended: the same, for two saves that do not overlap (neither
\* process opens the file while the other is between its open and its
\* write).
C9_LastWriterWinsUnlessSavesOverlap ==
    \A p \in Procs :
        (BothSucceeded /\ lastWriter = p /\ stale[p] /\ ~raced[p])
        => store = FileOf(Serialize(tracker[p]))

\* Both processes have added an expense and reported success; process 2 wrote
\* last, after process 1's save was over, and the file holds process 2's
\* ledger, without the expense process 1 added.
C9_Witness ==
    /\ BothSucceeded
    /\ cmd[1].op = "add" /\ cmd[2].op = "add"
    /\ HasText(out[1], "Expense added successfully!")
    /\ HasText(out[2], "Expense added successfully!")
    /\ lastWriter = 2 /\ stale[2] /\ ~raced[2]
    /\ store = FileOf(Serialize(tracker[2]))
    /\ Len(tracker[1]) = Len(tracker[2])
    /\ tracker[1][Len(tracker[1])] # tracker[2][Len(tracker[2])]

\* The categories present in a ledger.
CategoriesIn(expenses) == {expenses[i].category : i \in 1..Len(expenses)}

\* The totals of the categories of S added up from 0, in every order.
RECURSIVE SumsByCategory(_, _)
SumsByCategory(expenses, S) ==
    IF S = {} THEN {Fin(0)}
    ELSE UNION {{FAdd(t, summary_by_category(expenses, c)) :
                    t \in SumsByCategory(expenses, S \ {c})} : c \in S}

\* C10 as stated: for every ledger, summary_all is the sum of
\* summary_by_category over the distinct categories present (in some order
\* of adding them; two NaN count as the same total).
C10_PartitionProperty ==
    \A p \in Procs :
        summary_all(tracker[p])
            \in SumsByCategory(tracker[p], CategoriesIn(tracker[p]))

\* The magnitudes of the amounts of a ledger added up exactly; every amount
\* is a number.
RECURSIVE SumOfMagnitudes(_, _)
SumOfMagnitudes(expenses, n) ==
    IF n = 0 THEN 0
    ELSE SumOfMagnitudes(expenses, n - 1) + Abs(expenses[n].amount.v)

AllFinite(expenses) == \A i \in 1..Len(expenses) : expenses[i].amount.k = "fin"

\* No addition over the ledger rounds: the amounts are whole numbers whose
\* magnitudes add up to at most 2^MantBits.
SumsAreExact(expenses) ==
    /\ AllFinite(expenses)
    /\ SumOfMagnitudes(expenses, Len(expenses)) <= Pow2(MantBits)

\* C10 as amended: for every ledger over which no addition rounds,
\* summary_all equals the sum of summary_by_category over the distinct
\* categories present, in whatever order they are added.
C10_PartitionPropertyWhenExact ==
    \A p \in Procs :
        SumsAreExact(tracker[p])
        => \A t \in SumsByCategory(tracker[p], CategoriesIn(tracker[p])) :
               FEq(summary_all(tracker[p]), t)

\* A ledger of three expenses in two categories, over which no addition
\* rounds, has been summed.
C10_Witness ==
    /\ pc[1] = "exited" /\ cmd[1].op = "summary" /\ cmd[1].all
    /\ cmd[1].category # <<>>
    /\ Len(tracker[1]) = 3
    /\ Cardinality(CategoriesIn(tracker[1])) = 2
    /\ SumsAreExact(tracker[1])
    /\ summary_all(tracker[1]) = Fin(3)
    /\ summary_by_category(tracker[1], cmd[1].category[1]) = Fin(2)

====
